---- MODULE Spec2Model ----
(***************************************************************************)
(* Model of hidude562/food-optimization.                                   *)
(*                                                                         *)
(*  - src/src/sort_food_targets.py : the ranking script (calories per      *)
(*    dollar, tiered derivation, sort_values, print).                      *)
(*  - src/src/food.py : KrogerAPI.search_products (paging) and             *)
(*    KrogerAPI.get_all_food_products (deduplication of                    *)
(*    the per-category search results).                                    *)
(*                                                                         *)
(* Numbers are exact non-negative rationals [n, d] in lowest terms; the    *)
(* float NaN (a missing CSV cell) is the record [n |-> 0, d |-> 0].        *)
(* Text cells are sequences of one-character strings; a missing text cell  *)
(* (NaN after read_csv) is the empty sequence.                             *)
(* quantulum3, unit_parse and pint are libraries: their parsing and unit    *)
(* conversion are modelled on the texts of the input sets. Assignments to  *)
(* the integer column follow pandas 2.x (the column is upcast to float).   *)
(***************************************************************************)
EXTENDS Integers, Sequences, FiniteSets, TLC

VARIABLES
    csv,              \* rows of ./kroger_all_nutrition.csv as read at line 11
    nutrition,        \* the DataFrame: rows in their current order, with calories_per_dollar
    drop_indexes,     \* the list of line 16
    index,            \* position of the iterrows() loop of line 17
    pc,               \* position in the script
    printed,          \* what print_nutrition_dataframe wrote
    run,              \* 1: first ranking, 2: ranking of the already-ranked table
    first_out,        \* the table emitted by the first ranking
    category,         \* get_all_food_products: position of the loop over food_categories
    all_products,     \* get_all_food_products: all_products
    seen_product_ids, \* get_all_food_products: seen_product_ids
    products,         \* get_all_food_products: the list the last search returned
    fpc,              \* get_all_food_products: position in the method
    max_results,      \* search_products: the max_results argument
    found,            \* search_products: its local all_products
    start,            \* search_products: start (filter.start of the next request)
    spc,              \* search_products: position in the method
    http_log,         \* search_products: the requests sent and the responses they got
    returned          \* search_products: the list returned

vars == <<csv, nutrition, drop_indexes, index, pc, printed, run, first_out,
          category, all_products, seen_product_ids, products, fpc,
          max_results, found, start, spc, http_log, returned>>

rankVars == <<csv, nutrition, drop_indexes, index, pc, printed, run, first_out>>
foodVars == <<category, all_products, seen_product_ids, products, fpc>>
searchVars == <<max_results, found, start, spc, http_log, returned>>

(***************************************************************************)
(* Bounds                                                                  *)
(***************************************************************************)
MaxRows == 3          \* longest input table built from RowPool
MaxPage == 2          \* most products in one page of a search response
MaxResults == 4       \* largest max_results argument
MaxRequests == 5      \* most requests one search_products call sends
MaxProducts == 2      \* longest list one search_products call returns
NumCategories == 3    \* number of food_categories searched

(***************************************************************************)
(* Float arithmetic, as exact rationals                                    *)
(***************************************************************************)
RECURSIVE GCD(_, _)
GCD(a, b) == IF b = 0 THEN a ELSE GCD(b, a % b)

Norm(n, d) == LET g == GCD(n, d) IN [n |-> n \div g, d |-> d \div g]

Num(k) == [n |-> k, d |-> 1]

NaN == [n |-> 0, d |-> 0]

\* pd.isna on a numeric cell
IsNaN(v) == v.d = 0

IsZero(v) == v.d # 0 /\ v.n = 0

Mul(a, b) == IF IsNaN(a) \/ IsNaN(b) THEN NaN ELSE Norm(a.n * b.n, a.d * b.d)

\* float / float for a non-zero divisor (a zero divisor raises ZeroDivisionError)
Div(a, b) == IF IsNaN(a) \/ IsNaN(b) THEN NaN ELSE Norm(a.n * b.d, a.d * b.n)

\* a >= b on floats: false as soon as one side is NaN
Geq(a, b) == ~IsNaN(a) /\ ~IsNaN(b) /\ a.n * b.d >= b.n * a.d

\* a > b on floats
Gt(a, b) == ~IsNaN(a) /\ ~IsNaN(b) /\ a.n * b.d > b.n * a.d

(***************************************************************************)
(* Text cells and the two unit parsers                                     *)
(***************************************************************************)
NA == <<>>

\* pd.isna on a text cell
IsNA(text) == text = NA

Digits == {"0", "1", "2", "3", "4", "5", "6", "7", "8", "9"}

DigitVal(c) ==
    CASE c = "0" -> 0 [] c = "1" -> 1 [] c = "2" -> 2 [] c = "3" -> 3
      [] c = "4" -> 4 [] c = "5" -> 5 [] c = "6" -> 6 [] c = "7" -> 7
      [] c = "8" -> 8 [] c = "9" -> 9

DigitChar(k) ==
    CASE k = 0 -> "0" [] k = 1 -> "1" [] k = 2 -> "2" [] k = 3 -> "3"
      [] k = 4 -> "4" [] k = 5 -> "5" [] k = 6 -> "6" [] k = 7 -> "7"
      [] k = 8 -> "8" [] k = 9 -> "9"

\* number of leading digit characters
RECURSIVE DigitPrefixLen(_)
DigitPrefixLen(text) ==
    IF text = <<>> \/ Head(text) \notin Digits THEN 0
    ELSE 1 + DigitPrefixLen(Tail(text))

\* value of a sequence of digit characters
RECURSIVE DigitsValue(_, _)
DigitsValue(text, acc) ==
    IF text = <<>> THEN acc
    ELSE DigitsValue(Tail(text), 10 * acc + DigitVal(Head(text)))

RECURSIVE SkipSpaces(_)
SkipSpaces(text) ==
    IF text # <<>> /\ Head(text) = " " THEN SkipSpaces(Tail(text)) ELSE text

\* decimal digits of a natural number
RECURSIVE DigitsOf(_)
DigitsOf(k) ==
    IF k < 10 THEN <<DigitChar(k)>>
    ELSE Append(DigitsOf(k \div 10), DigitChar(k % 10))

\* the leading quantity of a text and the unit token that follows it
SplitQuantity(text) ==
    LET k == DigitPrefixLen(text)
    IN  [ok    |-> k > 0,
         value |-> DigitsValue(SubSeq(text, 1, k), 0),
         token |-> SkipSpaces(SubSeq(text, k + 1, Len(text)))]

\* quantulum3: surface forms of a unit -> unit.symbols[0]; <<>> when the unit
\* is unknown (dimensionless quantity, symbols is empty)
QuantulumSymbol(token) ==
    CASE token = <<"o", "z">> -> <<"o", "z">>
      [] token = <<"l", "b">> -> <<"l", "b">>
      [] token = <<"L">>      -> <<"l">>
      [] token = <<"l">>      -> <<"l">>
      [] token = <<"m", "l">> -> <<"m", "l">>
      [] OTHER                -> <<>>

\* parser.parse(text)[0], then .value and .unit.symbols[0]; not ok when either
\* subscript raises IndexError
QuantulumParse(text) ==
    LET q == SplitQuantity(text)
        s == QuantulumSymbol(q.token)
    IN  [ok     |-> q.ok /\ s # <<>>,
         value  |-> q.value,
         symbol |-> s]

\* f"{size.value} {size.unit.symbols[0]}"
FormatQuantity(value, symbol) == DigitsOf(value) \o <<" ">> \o symbol

\* pint unit registry: the unit a symbol names, "" when undefined
PintUnit(token) ==
    CASE token = <<"o", "z">> -> "ounce"
      [] token = <<"l", "b">> -> "pound"
      [] token = <<"l">>      -> "liter"
      [] token = <<"m", "l">> -> "milliliter"
      [] OTHER                -> ""

\* dimensionality of a pint unit
UnitDim(u) == IF u \in {"ounce", "pound"} THEN "[mass]" ELSE "[length] ** 3"

\* size of a pint unit in its dimension's smallest modelled unit
UnitFactor(u) ==
    CASE u = "ounce" -> 1 [] u = "pound" -> 16
      [] u = "milliliter" -> 1 [] u = "liter" -> 1000

\* unit_parse.parser(text): a pint Quantity
UnitParse(text) ==
    LET q == SplitQuantity(text)
        u == PintUnit(q.token)
    IN  [ok |-> q.ok /\ u # "", magnitude |-> Num(q.value), units |-> u]

\* Quantity.to(units): magnitude in the target unit (same dimension)
ConvertNoScale(magnitude, from, to) == magnitude

Convert(magnitude, from, to) ==
    Div(Mul(magnitude, Num(UnitFactor(from))), Num(UnitFactor(to)))

(***************************************************************************)
(* The ranking script, sort_food_targets.py                                *)
(***************************************************************************)
Zero == Num(0)

\* line 21 with the servings factor left out
ServingsTierPerServing(row) == Div(row.calories, row.price)

\* line 21: (calories * servings_per_package) / price
ServingsTier(row) == Div(Mul(row.calories, row.servings_per_package), row.price)

Failed == [ok |-> FALSE, value |-> NaN]

\* lines 23-41: the try block; ok is FALSE when an exception reached `except`
UnitTier(row) ==
    LET q1 == QuantulumParse(row.size)
        q2 == QuantulumParse(row.serving_size)
    IN  IF ~q1.ok \/ ~q2.ok THEN Failed
        ELSE
        LET size         == UnitParse(FormatQuantity(q1.value, q1.symbol))
            serving_size == UnitParse(FormatQuantity(q2.value, q2.symbol))
        IN  IF ~size.ok \/ ~serving_size.ok THEN Failed
            ELSE IF UnitDim(size.units) # UnitDim(serving_size.units) THEN Failed
            ELSE
            LET converted == Convert(serving_size.magnitude, serving_size.units, size.units)
            IN  IF IsZero(converted) THEN Failed
                ELSE
                LET ratio == Div(size.magnitude, converted)
                IN  [ok |-> TRUE, value |-> Div(Mul(row.calories, ratio), row.price)]

\* lines 18-41: one iteration of the loop over the rows. raised: the division
\* of line 18 raised ZeroDivisionError; value: the row's calories_per_dollar
\* cell after the iteration (the local of line 18 is not written to the cell)
RowBody(row) ==
    IF IsZero(row.price) THEN [raised |-> TRUE, value |-> row.calories_per_dollar]
    ELSE IF ~IsNaN(row.servings_per_package)
         THEN [raised |-> FALSE, value |-> ServingsTier(row)]
    ELSE IF ~IsNA(row.size) /\ ~IsNA(row.serving_size)
         THEN LET u == UnitTier(row)
              IN  [raised |-> FALSE,
                   value  |-> IF u.ok THEN u.value ELSE row.calories_per_dollar]
    ELSE [raised |-> FALSE, value |-> row.calories_per_dollar]

\* lines 43-44 dropping the first row whatever drop_indexes holds
DropFirst(tbl, drops) == Tail(tbl)

\* lines 43-44: nutrition.drop(i) for every i of drop_indexes
Drop(tbl, drops) == SelectSeq(tbl, LAMBDA r : r.description \notin drops)

Orders(n) ==
    {p \in [1..n -> 1..n] : \A i, j \in 1..n : i # j => p[i] # p[j]}

NonNaNCount(tbl) == Cardinality({i \in 1..Len(tbl) : ~IsNaN(tbl[i].calories_per_dollar)})

\* the orders an ascending sort may produce
SortValuesAscending(tbl) ==
    LET n == Len(tbl)
        k == NonNaNCount(tbl)
    IN  {[i \in 1..n |-> tbl[p[i]]] : p \in
            {q \in Orders(n) :
                /\ \A i \in 1..k : ~IsNaN(tbl[q[i]].calories_per_dollar)
                /\ \A i \in 1..(k - 1) :
                      Geq(tbl[q[i + 1]].calories_per_dollar, tbl[q[i]].calories_per_dollar)
                /\ \A i \in (k + 1)..(n - 1) : q[i] < q[i + 1]}}

\* line 46: sort_values(by='calories_per_dollar', ascending=False), with the
\* defaults kind='quicksort' (not a stable sort: rows with equal keys come
\* out in any order) and na_position='last' (NaN rows are appended after
\* the sorted rows, in their original order)
SortValues(tbl) ==
    LET n == Len(tbl)
        k == NonNaNCount(tbl)
    IN  {[i \in 1..n |-> tbl[p[i]]] : p \in
            {q \in Orders(n) :
                /\ \A i \in 1..k : ~IsNaN(tbl[q[i]].calories_per_dollar)
                /\ \A i \in 1..(k - 1) :
                      Geq(tbl[q[i]].calories_per_dollar, tbl[q[i + 1]].calories_per_dollar)
                /\ \A i \in (k + 1)..(n - 1) : q[i] < q[i + 1]}}

\* lines 6-9: one line per row, description and calories_per_dollar
print_nutrition_dataframe(tbl) ==
    [i \in 1..Len(tbl) |-> <<tbl[i].description, tbl[i].calories_per_dollar>>]

\* line 14: the new column, 0 in every row
AddColumn(rows) ==
    [i \in 1..Len(rows) |->
        [description          |-> rows[i].description,
         calories             |-> rows[i].calories,
         price                |-> rows[i].price,
         servings_per_package |-> rows[i].servings_per_package,
         size                 |-> rows[i].size,
         serving_size         |-> rows[i].serving_size,
         calories_per_dollar  |-> Zero]]

\* the columns of the CSV file
CsvRow(r) ==
    [description          |-> r.description,
     calories             |-> r.calories,
     price                |-> r.price,
     servings_per_package |-> r.servings_per_package,
     size                 |-> r.size,
     serving_size         |-> r.serving_size]

(***************************************************************************)
(* Input tables                                                            *)
(***************************************************************************)
T16oz == <<"1", "6", " ", "o", "z">>
T1lb  == <<"1", " ", "l", "b">>
T1L   == <<"1", " ", "L">>
Tabc  == <<"a", "b", "c">>
T4oz  == <<"4", " ", "o", "z">>
T8oz  == <<"8", " ", "o", "z">>
T0oz  == <<"0", " ", "o", "z">>
T250ml == <<"2", "5", "0", " ", "m", "l">>
T3ct  == <<"3", " ", "c", "t">>

CaloriesValues == {Num(0), Num(100), Num(150), NaN}
PriceValues    == {Num(0), Num(2), Num(4), NaN}
ServingsValues == {NaN, Num(2), Num(3)}
SizeValues     == {NA, T16oz, T1lb, T1L, Tabc}
ServingSizeValues == {NA, T4oz, T8oz, T0oz, T250ml, T3ct}

Cells(c, p, s, sz, ssz) ==
    [calories |-> c, price |-> p, servings_per_package |-> s,
     size |-> sz, serving_size |-> ssz]

\* every combination of cell values, for one-row tables
FullRows ==
    {Cells(c, p, s, sz, ssz) :
        c \in CaloriesValues, p \in PriceValues, s \in ServingsValues,
        sz \in SizeValues, ssz \in ServingSizeValues}

\* rows for the longer tables: every tier, ties, NaN and zero prices
RowPool ==
    { Cells(Num(100), Num(2), NaN, NA, NA),
      Cells(Num(100), Num(2), Num(2), NA, T4oz),
      Cells(Num(150), Num(4), NaN, T1lb, T8oz),
      Cells(Num(100), Num(2), NaN, T16oz, T4oz),
      Cells(Num(100), NaN, Num(2), NA, NA),
      Cells(Num(100), Num(0), NaN, NA, NA),
      Cells(Num(100), Num(2), NaN, T1L, T8oz),
      Cells(Num(150), Num(4), Num(1), T16oz, T4oz) }

\* the description column: the row's position in the file
Describe(cells) ==
    [i \in 1..Len(cells) |->
        [description          |-> i,
         calories             |-> cells[i].calories,
         price                |-> cells[i].price,
         servings_per_package |-> cells[i].servings_per_package,
         size                 |-> cells[i].size,
         serving_size         |-> cells[i].serving_size]]

Tables ==
    {Describe(<<r>>) : r \in FullRows}
    \cup UNION {{Describe(t) : t \in [1..n -> RowPool]} : n \in 2..MaxRows}

(***************************************************************************)
(* The script as a state machine                                           *)
(***************************************************************************)
\* search_products not called
SearchIdle ==
    /\ max_results = 0
    /\ found = <<>>
    /\ start = 1
    /\ spc = "idle"
    /\ http_log = <<>>
    /\ returned = <<>>

FoodIdle ==
    /\ category = 1
    /\ all_products = <<>>
    /\ seen_product_ids = {}
    /\ products = <<>>
    /\ fpc = "idle"

\* lines 11-16
Init ==
    /\ csv \in Tables
    /\ nutrition = AddColumn(csv)
    /\ drop_indexes = {}
    /\ index = 1
    /\ pc = "loop"
    /\ printed = <<>>
    /\ run = 1
    /\ first_out = <<>>
    /\ FoodIdle
    /\ SearchIdle

\* lines 17-41, an iteration that completes
LoopRow ==
    /\ pc = "loop"
    /\ index <= Len(nutrition)
    /\ ~RowBody(nutrition[index]).raised
    /\ nutrition' = [nutrition EXCEPT
                        ![index].calories_per_dollar = RowBody(nutrition[index]).value]
    /\ index' = index + 1
    /\ UNCHANGED <<csv, drop_indexes, pc, printed, run, first_out, foodVars, searchVars>>

\* line 18 raising ZeroDivisionError: the script ends with a traceback
LoopRaise ==
    /\ pc = "loop"
    /\ index <= Len(nutrition)
    /\ RowBody(nutrition[index]).raised
    /\ pc' = "raised"
    /\ UNCHANGED <<csv, nutrition, drop_indexes, index, printed, run, first_out, foodVars, searchVars>>

\* lines 43-46
DropAndSort ==
    /\ pc = "loop"
    /\ index > Len(nutrition)
    /\ nutrition' \in SortValues(Drop(nutrition, drop_indexes))
    /\ pc' = "print"
    /\ UNCHANGED <<csv, drop_indexes, index, printed, run, first_out, foodVars, searchVars>>

\* line 48
PrintTable ==
    /\ pc = "print"
    /\ printed' = print_nutrition_dataframe(nutrition)
    /\ pc' = "done"
    /\ UNCHANGED <<csv, nutrition, drop_indexes, index, run, first_out, foodVars, searchVars>>

\* the script run once more, on the table the first run emitted (lines 11-16)
Rerun ==
    /\ pc = "done"
    /\ run = 1
    /\ first_out' = nutrition
    /\ csv' = [i \in 1..Len(nutrition) |-> CsvRow(nutrition[i])]
    /\ nutrition' = AddColumn(nutrition)
    /\ drop_indexes' = {}
    /\ index' = 1
    /\ pc' = "loop"
    /\ printed' = <<>>
    /\ run' = 2
    /\ UNCHANGED <<foodVars, searchVars>>

Next == LoopRow \/ LoopRaise \/ DropAndSort \/ PrintTable \/ Rerun

Spec == Init /\ [][Next]_vars

(***************************************************************************)
(* KrogerAPI.get_all_food_products, food.py                                *)
(***************************************************************************)
None == "<None>"

\* dict.get(key): None when the key is absent
Get(product, key) == IF key \in DOMAIN product THEN product[key] ELSE None

\* truth value of a productId
Truthy(x) == x \notin {None, ""}

\* an element of a search result that is not a dict: .get raises AttributeError
IsDict(product) == "malformed" \notin DOMAIN product

\* lines 223-227 without the membership test
AddProductUnchecked(st, product) ==
    LET product_id == Get(product, "productId")
    IN  IF Truthy(product_id)
        THEN [all_products     |-> Append(st.all_products, product),
              seen_product_ids |-> st.seen_product_ids \cup {product_id},
              raised           |-> FALSE]
        ELSE st

\* lines 223-227: the body of the deduplication loop
AddProduct(st, product) ==
    LET product_id == Get(product, "productId")
    IN  IF Truthy(product_id) /\ product_id \notin st.seen_product_ids
        THEN [all_products     |-> Append(st.all_products, product),
              seen_product_ids |-> st.seen_product_ids \cup {product_id},
              raised           |-> FALSE]
        ELSE st

\* lines 222-227: the loop over one category's products; it stops where an
\* element raises, with what was added before kept
RECURSIVE Deduplicate(_, _)
Deduplicate(items, st) ==
    IF items = <<>> THEN st
    ELSE IF ~IsDict(Head(items)) THEN [st EXCEPT !.raised = TRUE]
    ELSE Deduplicate(Tail(items), AddProduct(st, Head(items)))

ProductIds == {"p1", "p2"}
Descriptions == {"a", "b"}

\* what a search result may hold: products with an id (the same id under two
\* descriptions), with an empty id, without the key, and a non-dict element
ProductPool ==
    {[productId |-> i, description |-> d] : i \in ProductIds, d \in Descriptions}
    \cup {[productId |-> "", description |-> "a"],
          [description |-> "a"],
          [malformed |-> TRUE]}

\* the lists search_products may return
SearchResults == UNION {[1..n -> ProductPool] : n \in 0..MaxProducts}

RankIdle ==
    /\ csv = <<>>
    /\ nutrition = <<>>
    /\ drop_indexes = {}
    /\ index = 1
    /\ pc = "idle"
    /\ printed = <<>>
    /\ run = 1
    /\ first_out = <<>>

\* lines 206-207
InitFood ==
    /\ category = 1
    /\ all_products = <<>>
    /\ seen_product_ids = {}
    /\ products = <<>>
    /\ fpc = "loop"
    /\ RankIdle
    /\ SearchIdle

\* lines 213-238: one category whose search returns a list (an element that
\* raises ends the category at `except`, line 236)
CategoryReturns ==
    /\ fpc = "loop"
    /\ category <= NumCategories
    /\ \E result \in SearchResults :
          LET st == Deduplicate(result,
                                [all_products     |-> all_products,
                                 seen_product_ids |-> seen_product_ids,
                                 raised           |-> FALSE])
          IN  /\ products' = result
              /\ all_products' = st.all_products
              /\ seen_product_ids' = st.seen_product_ids
    /\ category' = category + 1
    /\ UNCHANGED <<fpc, rankVars, searchVars>>

\* lines 217-218, 236-238: search_products raises, the category is skipped
CategoryRaises ==
    /\ fpc = "loop"
    /\ category <= NumCategories
    /\ category' = category + 1
    /\ UNCHANGED <<all_products, seen_product_ids, products, fpc, rankVars, searchVars>>

\* lines 240-244
ReturnProducts ==
    /\ fpc = "loop"
    /\ category > NumCategories
    /\ fpc' = "returned"
    /\ UNCHANGED <<category, all_products, seen_product_ids, products, rankVars, searchVars>>

NextFood == CategoryReturns \/ CategoryRaises \/ ReturnProducts

SpecFood == InitFood /\ [][NextFood]_vars

(***************************************************************************)
(* KrogerAPI.search_products, food.py                                      *)
(***************************************************************************)
\* line 112
limit == 50

\* status of a request that got no HTTP response (requests.ConnectionError,
\* a body that is not JSON): the exception is not an HTTPError
NoResponse == 0

\* statuses for which raise_for_status raises HTTPError
ErrorStatuses == {401, 429, 500}

\* meta.pagination.total of a page; 0 also stands for a missing meta
TotalValues == {0, 3, 100}

\* line 159 without the slice
TruncateNone(seq, n) == seq

\* line 159: all_products[:max_results], for max_results >= 0
Truncate(seq, n) == SubSeq(seq, 1, IF n < Len(seq) THEN n ELSE Len(seq))

\* the products of the page a request got: told apart by request and rank
PageData(request, n) == [k \in 1..n |-> <<request, k>>]

Logged(status, data) ==
    Append(http_log, [start |-> start, status |-> status, data |-> data])

\* line 119 lets the loop body run, and one more request fits the bound
CanRequest ==
    /\ spc = "loop"
    /\ Len(found) < max_results
    /\ Len(http_log) < MaxRequests

\* lines 110-112
InitSearch ==
    /\ max_results \in 0..MaxResults
    /\ found = <<>>
    /\ start = 1
    /\ spc = "loop"
    /\ http_log = <<>>
    /\ returned = <<>>
    /\ RankIdle
    /\ category = 1
    /\ all_products = <<>>
    /\ seen_product_ids = {}
    /\ products = <<>>
    /\ fpc = "idle"

\* lines 119-149: a 200 response with a page of products
PageReceived ==
    /\ CanRequest
    /\ \E n \in 1..MaxPage, total \in TotalValues :
          LET data == PageData(Len(http_log) + 1, n)
              all  == found \o data
          IN  /\ http_log' = Logged(200, data)
              /\ found' = all
              /\ IF Len(all) >= total \/ Len(all) >= max_results
                 THEN spc' = "break" /\ start' = start
                 ELSE spc' = "loop" /\ start' = start + limit
    /\ UNCHANGED <<max_results, returned, rankVars, foodVars>>

\* lines 119-137: a 200 response without products
EmptyPage ==
    /\ CanRequest
    /\ http_log' = Logged(200, <<>>)
    /\ spc' = "break"
    /\ UNCHANGED <<max_results, found, start, returned, rankVars, foodVars>>

\* lines 119-131, 151-154: a 429 response, the loop goes round again
RateLimited ==
    /\ CanRequest
    /\ http_log' = Logged(429, <<>>)
    /\ UNCHANGED <<max_results, found, start, spc, returned, rankVars, foodVars>>

\* lines 119-131, 151-157: another HTTP error
HttpError ==
    /\ CanRequest
    /\ \E status \in ErrorStatuses \ {429} : http_log' = Logged(status, <<>>)
    /\ spc' = "break"
    /\ UNCHANGED <<max_results, found, start, returned, rankVars, foodVars>>

\* lines 130-133 raising an exception that is not an HTTPError: it leaves
\* search_products
RequestRaises ==
    /\ CanRequest
    /\ http_log' = Logged(NoResponse, <<>>)
    /\ spc' = "raised"
    /\ UNCHANGED <<max_results, found, start, returned, rankVars, foodVars>>

\* lines 159-161, after a break or when the condition of line 119 fails
ReturnSearch ==
    /\ \/ spc = "break"
       \/ spc = "loop" /\ Len(found) >= max_results
    /\ returned' = Truncate(found, max_results)
    /\ spc' = "returned"
    /\ UNCHANGED <<max_results, found, start, http_log, rankVars, foodVars>>

NextSearch ==
    PageReceived \/ EmptyPage \/ RateLimited \/ HttpError \/ RequestRaises \/ ReturnSearch

SpecSearch == InitSearch /\ [][NextSearch]_vars

(***************************************************************************)
(* Vocabulary of the properties                                            *)
(***************************************************************************)
\* the rows the loop has finished with
ProcessedRows ==
    IF pc \in {"loop", "raised"}
    THEN {nutrition[i] : i \in 1..(index - 1)}
    ELSE {nutrition[i] : i \in 1..Len(nutrition)}

Emitted == pc = "done"

\* v = a / b, for a divisor that is not zero
IsQuotient(v, a, b) ==
    IF IsNaN(a) \/ IsNaN(b) THEN IsNaN(v)
    ELSE ~IsNaN(v) /\ v.n * (a.d * b.n) = v.d * (a.n * b.d)

\* v = a * s / b, for a divisor that is not zero
IsScaledQuotient(v, a, s, b) ==
    IF IsNaN(a) \/ IsNaN(s) \/ IsNaN(b) THEN IsNaN(v)
    ELSE ~IsNaN(v) /\ v.n * (a.d * s.d * b.n) = v.d * (a.n * s.n * b.d)

\* position of the row called d in a table
PosOf(tbl, d) == CHOOSE i \in 1..Len(tbl) : tbl[i].description = d

\* what the texts of the model denote: dimension and amount in the smallest unit
TextDim(text) ==
    IF text \in {T16oz, T1lb, T4oz, T8oz, T0oz} THEN "mass"
    ELSE IF text \in {T1L, T250ml} THEN "volume"
    ELSE "none"

TextAmount(text) ==
    CASE text = T16oz -> 16 [] text = T1lb -> 16 [] text = T4oz -> 4
      [] text = T8oz -> 8 [] text = T0oz -> 0 [] text = T1L -> 1000
      [] text = T250ml -> 250 [] OTHER -> 0

\* both texts denote quantities of one dimension (and the serving is not empty)
Convertible(r) ==
    /\ TextDim(r.size) # "none"
    /\ TextDim(r.size) = TextDim(r.serving_size)
    /\ TextAmount(r.serving_size) # 0

\* calories and price are numbers
Priced(r) == ~IsNaN(r.calories) /\ ~IsNaN(r.price)

NoUnitTexts(r) ==
    IsNaN(r.servings_per_package) /\ (IsNA(r.size) \/ IsNA(r.serving_size))

BaselineOnly(r) == Priced(r) /\ NoUnitTexts(r)

UnitCandidate(r) ==
    IsNaN(r.servings_per_package) /\ ~IsNA(r.size) /\ ~IsNA(r.serving_size)

(***************************************************************************)
(* C1. After the ranking script has processed every row, the emitted       *)
(* sequence is ordered by calories_per_dollar descending: for every pair   *)
(* of adjacent output rows the earlier value is >= the later one.          *)
(***************************************************************************)
\* the claim as stated: >= between every two adjacent emitted rows
C1_AdjacentGeq ==
    Emitted => \A i \in 1..(Len(printed) - 1) : Geq(printed[i][2], printed[i + 1][2])

\* C1 as amended: adjacent emitted rows that both carry a number are in
\* descending order, and the rows whose value is NaN come after all others
C1_DescendingNaNLast ==
    Emitted =>
        \A i \in 1..(Len(printed) - 1) :
            /\ (~IsNaN(printed[i][2]) /\ ~IsNaN(printed[i + 1][2]))
                   => Geq(printed[i][2], printed[i + 1][2])
            /\ IsNaN(printed[i][2]) => IsNaN(printed[i + 1][2])

C1_Witness ==
    /\ Emitted
    /\ Len(printed) >= 3
    /\ Gt(printed[1][2], printed[2][2])
    /\ IsNaN(printed[3][2])
    /\ printed[1][1] # 1

(***************************************************************************)
(* C2. A row where only calories and price are set (no                     *)
(* servings_per_package, and size or serving_size absent) ends with        *)
(* calories_per_dollar = calories / price.                                 *)
(***************************************************************************)
C2_BaselineStored ==
    \A r \in ProcessedRows :
        BaselineOnly(r) => IsQuotient(r.calories_per_dollar, r.calories, r.price)

(***************************************************************************)
(* C3. A row with servings_per_package = s ends with calories_per_dollar   *)
(* = calories * s / price, also when size and serving_size are present:    *)
(* the unit-conversion tier is never applied to such a row.                *)
(***************************************************************************)
C3_ServingsTier ==
    \A r \in ProcessedRows :
        ~IsNaN(r.servings_per_package) =>
            IsScaledQuotient(r.calories_per_dollar, r.calories,
                             r.servings_per_package, r.price)

\* a processed row with servings and with texts the unit tier would accept,
\* giving another value
C3_Witness ==
    \E r \in ProcessedRows :
        /\ ~IsNaN(r.servings_per_package)
        /\ ~IsNaN(r.calories_per_dollar)
        /\ ~IsZero(r.calories_per_dollar)
        /\ Convertible(r)
        /\ r.calories_per_dollar.n * (r.price.n * TextAmount(r.serving_size))
              # r.calories_per_dollar.d * (r.calories.n * TextAmount(r.size))

(***************************************************************************)
(* C4. A row without servings_per_package whose unit-conversion tier fails *)
(* (unparseable text, unknown unit, incompatible dimensions) ends with the *)
(* baseline calories / price; no error leaves the ranking and the row is   *)
(* still in the output.                                                    *)
(***************************************************************************)
C4_FallbackToBaseline ==
    /\ \A r \in ProcessedRows :
          (Priced(r) /\ UnitCandidate(r) /\ ~UnitTier(r).ok)
              => IsQuotient(r.calories_per_dollar, r.calories, r.price)
    /\ pc = "raised" => IsZero(nutrition[index].price)
    /\ Len(nutrition) = Len(csv)

(***************************************************************************)
(* C5. A row with zero or undefined price does not make the ranking raise  *)
(* a numeric error: it gets a non-finite calories_per_dollar and is placed *)
(* after every row with a finite ratio.                                    *)
(***************************************************************************)
C5_NoNumericError ==
    /\ pc # "raised"
    /\ Emitted =>
          \A i \in 1..Len(nutrition) :
              (IsZero(nutrition[i].price) \/ IsNaN(nutrition[i].price)) =>
                  /\ IsNaN(nutrition[i].calories_per_dollar)
                  /\ \A j \in 1..Len(nutrition) :
                        ~IsNaN(nutrition[j].calories_per_dollar) => j < i

(***************************************************************************)
(* C6. Ranking is a pure reordering, never a filter: the output holds      *)
(* exactly the input rows (same count, identities kept, none dropped or    *)
(* duplicated), each with exactly one calories_per_dollar.                 *)
(***************************************************************************)
C6_PureReordering ==
    /\ Len(nutrition) = Len(csv)
    /\ \A i \in 1..Len(csv) :
          Cardinality({j \in 1..Len(nutrition) : CsvRow(nutrition[j]) = csv[i]}) = 1
    /\ Emitted =>
          /\ Len(printed) = Len(csv)
          /\ \A i \in 1..Len(csv) :
                Cardinality({j \in 1..Len(printed) : printed[j][1] = csv[i].description}) = 1

C6_Witness ==
    /\ Emitted
    /\ Len(csv) >= 3
    /\ \E i \in 1..Len(csv) : printed[i][1] # csv[i].description

(***************************************************************************)
(* C7. Sorting is stable: two rows with identical calories_per_dollar      *)
(* appear in the output in the same relative order as in the input.        *)
(***************************************************************************)
C7_StableSort ==
    pc \in {"print", "done"} =>
        \A i, j \in 1..Len(nutrition) :
            (i < j /\ nutrition[i].calories_per_dollar = nutrition[j].calories_per_dollar)
                => PosOf(csv, nutrition[i].description) < PosOf(csv, nutrition[j].description)

(***************************************************************************)
(* C8. A row without servings_per_package whose size and serving_size are  *)
(* both present, parseable and convertible ends with calories * (size /    *)
(* serving_size in size's unit) / price; size "16 oz", serving "4 oz",     *)
(* calories 100, price 2 give 200. The unit tier is attempted only when    *)
(* servings_per_package is absent and both texts are present.              *)
(***************************************************************************)
C8_UnitTier ==
    \A r \in ProcessedRows :
        /\ (UnitCandidate(r) /\ Convertible(r)) =>
              IsScaledQuotient(r.calories_per_dollar, r.calories,
                               [n |-> TextAmount(r.size), d |-> TextAmount(r.serving_size)],
                               r.price)
        /\ (UnitCandidate(r) /\ r.size = T16oz /\ r.serving_size = T4oz
                /\ r.calories = Num(100) /\ r.price = Num(2))
              => r.calories_per_dollar = Num(200)
        /\ (~IsNaN(r.servings_per_package) /\ Convertible(r)) =>
              IsScaledQuotient(r.calories_per_dollar, r.calories,
                               r.servings_per_package, r.price)
        /\ NoUnitTexts(r) => r.calories_per_dollar = Zero

\* a processed row of the unit tier whose two texts are in different units
C8_Witness ==
    \E r \in ProcessedRows :
        /\ UnitCandidate(r)
        /\ r.size = T1lb
        /\ r.serving_size = T8oz
        /\ r.calories = Num(150)
        /\ r.price = Num(4)
        /\ r.calories_per_dollar = [n |-> 75, d |-> 1]

(***************************************************************************)
(* C9. Idempotence: ranking an already-ranked sequence again yields the    *)
(* same row order and the same calories_per_dollar values.                 *)
(***************************************************************************)
C9_Idempotent ==
    (run = 2 /\ Emitted) => nutrition = first_out

(***************************************************************************)
(* C10. get_all_food_products returns a list in which no two products      *)
(* share a productId and none lacks one, whatever the searches return; a   *)
(* product first seen in an earlier category keeps its position and is not *)
(* re-added by a later category, and an exception in one category does not *)
(* remove products already collected.                                      *)
(***************************************************************************)
IsPrefix(s, t) == Len(s) <= Len(t) /\ SubSeq(t, 1, Len(s)) = s

UniqueIds ==
    /\ \A i \in 1..Len(all_products) :
          /\ "productId" \in DOMAIN all_products[i]
          /\ all_products[i].productId \notin {None, ""}
    /\ \A i, j \in 1..Len(all_products) :
          i # j => all_products[i].productId # all_products[j].productId
    /\ seen_product_ids = {all_products[i].productId : i \in 1..Len(all_products)}

C10_UniqueAndKept == [](UniqueIds) /\ [][IsPrefix(all_products, all_products')]_vars

\* the list is returned after the last search offered, under another
\* description, the id the first product of the list already had, after an
\* element without an id: the first product stayed where it was
C10_Witness ==
    /\ fpc = "returned"
    /\ all_products = <<[productId |-> "p1", description |-> "a"],
                        [productId |-> "p2", description |-> "b"]>>
    /\ products = <<[description |-> "a"], [productId |-> "p1", description |-> "b"]>>

(***************************************************************************)
(* C11. search_products never returns more than max_results products and   *)
(* never lets an HTTP error escape: a 429 response makes the same page     *)
(* (same filter.start, nothing appended) be requested again, any other     *)
(* HTTP error or an empty page ends the loop, and what is returned is the  *)
(* products accumulated so far, in page order, cut to max_results.         *)
(***************************************************************************)
\* the products of the first k responses, in the order they arrived
RECURSIVE Received(_)
Received(k) == IF k = 0 THEN <<>> ELSE Received(k - 1) \o http_log[k].data

EndsLoop(entry) ==
    \/ entry.status \in ErrorStatuses \ {429}
    \/ entry.status = 200 /\ entry.data = <<>>

C11_SearchBounded ==
    /\ spc = "returned" =>
          /\ Len(returned) <= max_results
          /\ Len(returned) <= Len(Received(Len(http_log)))
          /\ returned = SubSeq(Received(Len(http_log)), 1, Len(returned))
          /\ Len(returned) < max_results => returned = Received(Len(http_log))
    /\ spc = "raised" => http_log[Len(http_log)].status \notin ErrorStatuses
    /\ \A i \in 1..Len(http_log) :
          /\ http_log[i].status = 429 =>
                /\ i = Len(http_log) => (spc = "loop" /\ start = http_log[i].start)
                /\ i < Len(http_log) => http_log[i + 1].start = http_log[i].start
                /\ i = Len(http_log) => found = Received(i - 1)
          /\ EndsLoop(http_log[i]) =>
                (i = Len(http_log) /\ spc \in {"break", "returned"})

\* a call that was rate limited on its second page, got the page on the next
\* request, and returned fewer products than it had received
C11_Witness ==
    /\ spc = "returned"
    /\ max_results = 3
    /\ Len(http_log) = 3
    /\ http_log[1].status = 200
    /\ http_log[2].status = 429
    /\ http_log[2].start = 1 + limit
    /\ http_log[3].status = 200
    /\ Len(found) = 4
    /\ returned = <<<<1, 1>>, <<1, 2>>, <<3, 1>>>>

====
